---- MODULE Spec2Model ----
(***************************************************************************)
(* Model of the stress-test crate (src/stress-test): the four load         *)
(* generators of lib.rs (cpu_load_test, cpu_load_test_rayon,               *)
(* gpu_load_test, gpu_load_test_rayon) and the command layer of main.rs.   *)
(*                                                                         *)
(* One behaviour is one run of the binary: the command line and the        *)
(* environment are chosen in Init, main dispatches to a generator, the     *)
(* generator runs step by step (the parallel ones as one task per index    *)
(* sharing a mutex-guarded Vec), and main reports the outcome.             *)
(*                                                                         *)
(* Library semantics the model relies on:                                  *)
(*  - tch: Tensor::from_slice, Tensor::to_device and Tensor::size are the  *)
(*    non-fallible wrappers; they return a plain value, so a library       *)
(*    error (for example Device::Cuda(0) not present) is a panic, never    *)
(*    an Err of the generator;                                             *)
(*  - std::sync::Mutex: lock() fails only when the mutex is poisoned, and  *)
(*    a mutex is poisoned when a guard is dropped during a panic;          *)
(*  - rayon: try_for_each joins every started task before it returns;      *)
(*    a panic of a task is resumed in the caller and takes precedence over *)
(*    an Err of another task; after an Err or a panic, tasks that have not *)
(*    started may be skipped.                                              *)
(***************************************************************************)
EXTENDS Integers, Sequences, FiniteSets, TLC

\* Largest --len the model explores.
MaxLen == 4

\* Largest number of library calls that report an error in one run
\* (besides the missing CUDA device, which fails every placement).
MaxFaults == 1

VARIABLES
    command,        \* args.command: "Cpu", "Tcpu", "Gpu", "Tgpu" or "None"
    len,            \* common_args.len
    cudaAvailable,  \* environment: is Device::Cuda(0) present
    faultsLeft,     \* environment: library errors that may still occur
    failures,       \* history: the kinds of failure that have occurred
    pc,             \* position of the main thread
    i,              \* loop variable of the sequential generators
    seqT,           \* the tensor t of the current sequential iteration
    results,        \* the local Vec of the sequential generators
    wpc,            \* position of each parallel task (one per index)
    tensor,         \* the tensor t of each parallel task
    buffer,         \* the Vec inside Arc<Mutex<_>>, in arrival order (kept after
                    \* into_inner as the record of that order)
    holder,         \* the task holding the MutexGuard, 0 when the lock is free
    poisoned,       \* the mutex's poison flag
    arcStrong,      \* strong count of the Arc
    acquired,       \* per task: how many times lock() returned a guard
    opsUnderLock,   \* per task: what it did while holding the guard
    trace,          \* the diagnostic lines "{i} {size}" printed by the generators
    stdout,         \* the command layer's lines on standard output
    stderr,         \* the lines on the error stream
    outcome,        \* how the generator ended: "none", "Ok", "Err", "Panic"
    retVal,         \* the Vec carried by Ok
    errMsg,         \* the message carried by Err
    exitStatus      \* "running", "success" (status 0) or "panic" (unwinding out of main)

vars == << command, len, cudaAvailable, faultsLeft, failures, pc, i, seqT, results, wpc,
           tensor, buffer, holder, poisoned, arcStrong, acquired, opsUnderLock,
           trace, stdout, stderr, outcome, retVal, errMsg, exitStatus >>

Commands == {"Cpu", "Tcpu", "Gpu", "Tgpu", "None"}
Sequential == {"Cpu", "Gpu"}
Parallel == {"Tcpu", "Tgpu"}

NoTensor == [data |-> << >>, device |-> "none"]

----------------------------------------------------------------------------
(* Pure parts of lib.rs *)

\* vec![0; n]
ZeroVec(n) == [k \in 1..n |-> 0]

\* The half-open range a..b of Rust: a, a+1, ..., b-1 (wrong variant: a..=b).
RangeInclusive(a, b) == a..b
Range(a, b) == {k \in a..b : k < b}

\* Device::Cpu for the cpu generators, Device::Cuda(0) for the gpu ones.
DeviceOf(cmd) == IF cmd \in {"Cpu", "Tcpu"} THEN "Cpu" ELSE "Cuda"

\* Tensor::from_slice(&slice): a one-dimensional tensor over the slice's data.
from_slice(slice) == [data |-> slice, device |-> "Cpu"]

\* Tensor::to_device(device)
to_device(t, d) == [t EXCEPT !.device = d]

\* Tensor::size(): the shape of a one-dimensional tensor (wrong variant:
\* the index of the last element).
sizeLastIndex(t) == << Len(t.data) - 1 >>
size(t) == << Len(t.data) >>

\* Insert sample s into the sorted sequence q after every element whose
\* key is not greater (sort_by_key is stable).
RECURSIVE InsertByKey(_, _)
InsertByKey(s, q) ==
    IF q = << >> THEN << s >>
    ELSE IF s[1] < Head(q)[1] THEN << s >> \o q
    ELSE << Head(q) >> \o InsertByKey(s, Tail(q))

RECURSIVE SortFrom(_, _)
SortFrom(q, acc) ==
    IF q = << >> THEN acc ELSE SortFrom(Tail(q), InsertByKey(Head(q), acc))

\* results.sort_by_key(|k| k.0)  (wrong variant: the sort left out)
sort_unsorted(q) == q
sort_by_key(q) == SortFrom(q, << >>)

----------------------------------------------------------------------------
(* Pure parts of main.rs *)

RunningMsg(cmd) ==
    CASE cmd = "Cpu"  -> "Running CPU stress test."
      [] cmd = "Tcpu" -> "Running GPU stress test with rayon."
      [] cmd = "Gpu"  -> "Running GPU stress test."
      [] cmd = "Tgpu" -> "Running GPU stress test with rayon."

CompletedMsg(cmd) ==
    CASE cmd = "Cpu"  -> "CPU stress test completed successfully."
      [] cmd = "Tcpu" -> "CPU stress test with rayon completed successfully."
      [] cmd = "Gpu"  -> "GPU stress test completed successfully."
      [] cmd = "Tgpu" -> "GPU stress test with rayon completed successfully."

ErrorPrefix(cmd) ==
    CASE cmd = "Cpu"  -> "Error running CPU stress test: "
      [] cmd = "Tcpu" -> "Error running CPU stress test with rayon: "
      [] cmd = "Gpu"  -> "Error running GPU stress test: "
      [] cmd = "Tgpu" -> "Error running GPU stress test with rayon: "

NoCommandMsg == "No command specified."

\* Every arm of main's match falls through to the end of main, which
\* returns (): the status is success whatever the generator returned
\* (wrong variant: only Ok ends in success).
StatusOnlyOkSucceeds(o) == IF o = "Ok" THEN "success" ELSE "failure"
StatusOfMain(o) == "success"

----------------------------------------------------------------------------
(* Initial state: the process has parsed its arguments. *)

Init ==
    /\ command \in Commands
    /\ len \in 0..MaxLen
    /\ cudaAvailable \in BOOLEAN
    /\ faultsLeft \in 0..MaxFaults
    /\ failures = {}
    /\ pc = "main"
    /\ i = 0
    /\ seqT = NoTensor
    /\ results = << >>
    /\ wpc = << >>
    /\ tensor = << >>
    /\ buffer = << >>
    /\ holder = 0
    /\ poisoned = FALSE
    /\ arcStrong = 0
    /\ acquired = << >>
    /\ opsUnderLock = << >>
    /\ trace = << >>
    /\ stdout = << >>
    /\ stderr = << >>
    /\ outcome = "none"
    /\ retVal = << >>
    /\ errMsg = ""
    /\ exitStatus = "running"

seqVars == << i, seqT, results >>
parVars == << wpc, tensor, buffer, holder, poisoned, arcStrong, acquired, opsUnderLock >>
envVars == << command, len, cudaAvailable >>
outVars == << stdout, stderr, outcome, retVal, errMsg, exitStatus >>

----------------------------------------------------------------------------
(* The environment of the tensor library *)

\* Placement on Device::Cuda(0) fails when no such device is present.
DeviceMissing(cmd) == DeviceOf(cmd) = "Cuda" /\ ~cudaAvailable

\* The outcomes of one library call: "fail" is the library reporting an
\* error, which the non-fallible wrappers turn into a panic.
CallOutcomes(mustFail) ==
    IF mustFail THEN {"fail"}
    ELSE IF faultsLeft > 0 THEN {"ok", "fail"} ELSE {"ok"}

FaultsAfter(o, mustFail) ==
    IF o = "fail" /\ ~mustFail THEN faultsLeft - 1 ELSE faultsLeft

\* History of the run's failures: "device" (placement on a missing device),
\* "library" (another error of a tensor-library call), "lock" (lock()
\* returned Err), "unwrap" (try_unwrap or into_inner failed).
FailuresAfter(o, mustFail) ==
    IF o # "fail" THEN failures
    ELSE IF mustFail THEN failures \cup {"device"}
    ELSE failures \cup {"library"}

----------------------------------------------------------------------------
(* main.rs: dispatch on args.command *)

\* The indices of the loop, 1..slice.len() (wrong variant: 1..=slice.len()).
IndicesInclusive(n) == RangeInclusive(1, Len(ZeroVec(n)))
Indices(n) == Range(1, Len(ZeroVec(n)))

main_dispatch ==
    /\ pc = "main"
    /\ IF command = "None"
       THEN /\ stdout' = Append(stdout, NoCommandMsg)
            /\ exitStatus' = StatusOfMain(outcome)
            /\ pc' = "exited"
            /\ UNCHANGED << seqVars, parVars >>
       ELSE /\ stdout' = Append(stdout, RunningMsg(command))
            /\ exitStatus' = exitStatus
            /\ IF command \in Sequential
               THEN \* let slice = vec![0; len]; let mut results = Vec::new();
                    /\ pc' = "seq"
                    /\ i' = 1
                    /\ results' = << >>
                    /\ UNCHANGED << seqT, parVars >>
               ELSE \* let results = Arc::new(Mutex::new(Vec::new()));
                    /\ pc' = "fanout"
                    /\ wpc' = [w \in Indices(len) |-> "start"]
                    /\ tensor' = [w \in Indices(len) |-> NoTensor]
                    /\ acquired' = [w \in Indices(len) |-> 0]
                    /\ opsUnderLock' = [w \in Indices(len) |-> << >>]
                    /\ buffer' = << >>
                    /\ holder' = 0
                    /\ poisoned' = FALSE
                    /\ arcStrong' = 1
                    /\ UNCHANGED seqVars
    /\ UNCHANGED << envVars, faultsLeft, failures, trace, stderr, outcome, retVal, errMsg >>

----------------------------------------------------------------------------
(* lib.rs: cpu_load_test / gpu_load_test, one loop iteration in three steps *)

SeqPanic ==
    /\ pc' = "panicked"
    /\ outcome' = "Panic"

\* let t = Tensor::from_slice(&slice).to_device(device);
seq_construct ==
    /\ pc = "seq"
    /\ i \in Indices(len)
    /\ \E o \in CallOutcomes(DeviceMissing(command)) :
         /\ faultsLeft' = FaultsAfter(o, DeviceMissing(command))
         /\ failures' = FailuresAfter(o, DeviceMissing(command))
         /\ IF o = "ok"
            THEN /\ seqT' = to_device(from_slice(ZeroVec(len)), DeviceOf(command))
                 /\ pc' = "seq_print"
                 /\ outcome' = outcome
            ELSE /\ SeqPanic
                 /\ seqT' = seqT
    /\ UNCHANGED << envVars, i, results, parVars, trace, stdout, stderr, retVal,
                    errMsg, exitStatus >>

\* println!("{} {:?}", i, t.size());
seq_print ==
    /\ pc = "seq_print"
    /\ \E o \in CallOutcomes(FALSE) :
         /\ faultsLeft' = FaultsAfter(o, FALSE)
         /\ failures' = FailuresAfter(o, FALSE)
         /\ IF o = "ok"
            THEN /\ trace' = Append(trace, << i, size(seqT) >>)
                 /\ pc' = "seq_push"
                 /\ outcome' = outcome
            ELSE /\ SeqPanic
                 /\ trace' = trace
    /\ UNCHANGED << envVars, seqVars, parVars, stdout, stderr, retVal, errMsg,
                    exitStatus >>

\* results.push((i, t.size()));  and the loop's increment
seq_push ==
    /\ pc = "seq_push"
    /\ \E o \in CallOutcomes(FALSE) :
         /\ faultsLeft' = FaultsAfter(o, FALSE)
         /\ failures' = FailuresAfter(o, FALSE)
         /\ IF o = "ok"
            THEN /\ results' = Append(results, << i, size(seqT) >>)
                 /\ i' = i + 1
                 /\ seqT' = NoTensor
                 /\ pc' = "seq"
                 /\ outcome' = outcome
            ELSE /\ SeqPanic
                 /\ UNCHANGED seqVars
    /\ UNCHANGED << envVars, parVars, trace, stdout, stderr, retVal, errMsg,
                    exitStatus >>

\* Ok(results), once the range is exhausted
seq_return ==
    /\ pc = "seq"
    /\ i \notin Indices(len)
    /\ outcome' = "Ok"
    /\ retVal' = results
    /\ pc' = "returned"
    /\ UNCHANGED << envVars, faultsLeft, failures, seqVars, parVars, trace, stdout, stderr,
                    errMsg, exitStatus >>

----------------------------------------------------------------------------
(* lib.rs: cpu_load_test_rayon / gpu_load_test_rayon.                      *)
(* (1..slice.len()).into_par_iter().try_for_each(closure): one task per    *)
(* index w, each running the closure's statements in order.                *)

Ended == {"done", "err", "panicked", "skipped"}
InCritical == {"locked", "sized", "pushed"}

\* May lock() hand out the guard (wrong variant: no mutual exclusion).
LockAlways == TRUE
LockFree == holder = 0

\* The MutexGuard of task w goes out of scope at the closure's end
\* (wrong variant: the guard is leaked and the lock stays taken).
GuardLeaked(h, w) == h
GuardDropped(h, w) == IF h = w THEN 0 ELSE h

\* Unwinding out of the closure drops the guard too (wrong variant: it
\* does not).
UnwindKeepsGuard(h, w) == h
UnwindDropsGuard(h, w) == IF h = w THEN 0 ELSE h

\* The record of what a task does while it holds the guard: the calls are
\* logged only when the task is the holder at the time it makes them.
LogOps(w, ops) ==
    IF holder = w THEN [opsUnderLock EXCEPT ![w] = @ \o ops] ELSE opsUnderLock

\* A task panics: the wrapper's unwrap of a library error.  A guard it
\* holds is dropped by the unwinding, which poisons the mutex.
WorkerPanic(w) ==
    /\ wpc' = [wpc EXCEPT ![w] = "panicked"]
    /\ holder' = UnwindDropsGuard(holder, w)
    /\ poisoned' = (poisoned \/ holder = w)

\* Tensor::from_slice(&slice)
worker_from_slice(w) ==
    /\ pc = "fanout"
    /\ wpc[w] = "start"
    /\ \E o \in CallOutcomes(FALSE) :
         /\ faultsLeft' = FaultsAfter(o, FALSE)
         /\ failures' = FailuresAfter(o, FALSE)
         /\ IF o = "ok"
            THEN /\ tensor' = [tensor EXCEPT ![w] = from_slice(ZeroVec(len))]
                 /\ wpc' = [wpc EXCEPT ![w] = "sliced"]
                 /\ UNCHANGED << holder, poisoned >>
            ELSE /\ WorkerPanic(w)
                 /\ tensor' = tensor
    /\ opsUnderLock' = LogOps(w, << "from_slice" >>)
    /\ UNCHANGED << envVars, pc, seqVars, buffer, arcStrong, acquired,
                    trace, outVars >>

\* .to_device(device)
worker_to_device(w) ==
    /\ pc = "fanout"
    /\ wpc[w] = "sliced"
    /\ \E o \in CallOutcomes(DeviceMissing(command)) :
         /\ faultsLeft' = FaultsAfter(o, DeviceMissing(command))
         /\ failures' = FailuresAfter(o, DeviceMissing(command))
         /\ IF o = "ok"
            THEN /\ tensor' = [tensor EXCEPT ![w] = to_device(tensor[w], DeviceOf(command))]
                 /\ wpc' = [wpc EXCEPT ![w] = "placed"]
                 /\ UNCHANGED << holder, poisoned >>
            ELSE /\ WorkerPanic(w)
                 /\ tensor' = tensor
    /\ opsUnderLock' = LogOps(w, << "to_device" >>)
    /\ UNCHANGED << envVars, pc, seqVars, buffer, arcStrong, acquired,
                    trace, outVars >>

\* println!("{} {:?}", i, t.size());
worker_print(w) ==
    /\ pc = "fanout"
    /\ wpc[w] = "placed"
    /\ \E o \in CallOutcomes(FALSE) :
         /\ faultsLeft' = FaultsAfter(o, FALSE)
         /\ failures' = FailuresAfter(o, FALSE)
         /\ IF o = "ok"
            THEN /\ trace' = Append(trace, << w, size(tensor[w]) >>)
                 /\ wpc' = [wpc EXCEPT ![w] = "printed"]
                 /\ UNCHANGED << holder, poisoned >>
            ELSE /\ WorkerPanic(w)
                 /\ trace' = trace
    /\ opsUnderLock' = LogOps(w, << "size", "println" >>)
    /\ UNCHANGED << envVars, pc, seqVars, tensor, buffer, arcStrong, acquired,
                    outVars >>

\* let mut results = results.lock().map_err(|e| format!("Mutex lock error: {}", e))?;
\* A poisoned mutex makes lock() return Err; map_err drops the guard inside
\* the PoisonError and the closure returns Err.
worker_lock(w) ==
    /\ pc = "fanout"
    /\ wpc[w] = "printed"
    /\ LockFree
    /\ IF poisoned
       THEN /\ wpc' = [wpc EXCEPT ![w] = "err"]
            /\ UNCHANGED << holder, acquired >>
       ELSE /\ wpc' = [wpc EXCEPT ![w] = "locked"]
            /\ holder' = w
            /\ acquired' = [acquired EXCEPT ![w] = @ + 1]
    /\ failures' = IF poisoned THEN failures \cup {"lock"} ELSE failures
    /\ UNCHANGED << envVars, faultsLeft, pc, seqVars, tensor, buffer, poisoned,
                    arcStrong, opsUnderLock, trace, outVars >>

\* The argument of push, t.size(), is evaluated with the guard held.
worker_size(w) ==
    /\ pc = "fanout"
    /\ wpc[w] = "locked"
    /\ \E o \in CallOutcomes(FALSE) :
         /\ faultsLeft' = FaultsAfter(o, FALSE)
         /\ failures' = FailuresAfter(o, FALSE)
         /\ IF o = "ok"
            THEN /\ wpc' = [wpc EXCEPT ![w] = "sized"]
                 /\ UNCHANGED << holder, poisoned >>
            ELSE WorkerPanic(w)
    /\ opsUnderLock' = LogOps(w, << "size" >>)
    /\ UNCHANGED << envVars, pc, seqVars, tensor, buffer, arcStrong, acquired,
                    trace, outVars >>

\* results.push((i, t.size()));
worker_push(w) ==
    /\ pc = "fanout"
    /\ wpc[w] = "sized"
    /\ buffer' = Append(buffer, << w, size(tensor[w]) >>)
    /\ wpc' = [wpc EXCEPT ![w] = "pushed"]
    /\ opsUnderLock' = LogOps(w, << "push" >>)
    /\ UNCHANGED << envVars, faultsLeft, failures, pc, seqVars, tensor, holder, poisoned,
                    arcStrong, acquired, trace, outVars >>

\* Ok(()) and the end of the closure: the guard and the tensor are dropped.
worker_return(w) ==
    /\ pc = "fanout"
    /\ wpc[w] = "pushed"
    /\ wpc' = [wpc EXCEPT ![w] = "done"]
    /\ holder' = GuardDropped(holder, w)
    /\ UNCHANGED << envVars, faultsLeft, failures, pc, seqVars, tensor, buffer, poisoned,
                    arcStrong, acquired, opsUnderLock, trace, outVars >>

\* try_for_each stops handing out items once a task has returned Err or
\* panicked; an item not yet started may then never run.
worker_skip(w) ==
    /\ pc = "fanout"
    /\ wpc[w] = "start"
    /\ \E v \in DOMAIN wpc : wpc[v] \in {"err", "panicked"}
    /\ wpc' = [wpc EXCEPT ![w] = "skipped"]
    /\ UNCHANGED << envVars, faultsLeft, failures, pc, seqVars, tensor, buffer, holder,
                    poisoned, arcStrong, acquired, opsUnderLock, trace, outVars >>

\* What try_for_each hands back once every task has ended: a task's panic
\* is resumed in the caller, otherwise the first Err, otherwise Ok(())
\* (wrong variant: panics of the tasks are swallowed).
JoinSwallowsPanic(p) ==
    IF \E w \in DOMAIN p : p[w] = "err" THEN "Err" ELSE "Ok"
JoinResult(p) ==
    IF \E w \in DOMAIN p : p[w] = "panicked" THEN "Panic"
    ELSE IF \E w \in DOMAIN p : p[w] = "err" THEN "Err"
    ELSE "Ok"

\* try_for_each(...)?  returns to the generator
try_for_each_join ==
    /\ pc = "fanout"
    /\ \A w \in DOMAIN wpc : wpc[w] \in Ended
    /\ CASE JoinResult(wpc) = "Panic" ->
              /\ pc' = "panicked"
              /\ outcome' = "Panic"
              /\ errMsg' = errMsg
         [] JoinResult(wpc) = "Err" ->
              /\ pc' = "returned"
              /\ outcome' = "Err"
              /\ errMsg' = "Mutex lock error"
         [] JoinResult(wpc) = "Ok" ->
              /\ pc' = "reclaim"
              /\ outcome' = outcome
              /\ errMsg' = errMsg
    /\ UNCHANGED << envVars, faultsLeft, failures, seqVars, parVars, trace, stdout, stderr,
                    retVal, exitStatus >>

\* Arc::try_unwrap(results)?.into_inner()?; sort_by_key; Ok(results)
reclaim ==
    /\ pc = "reclaim"
    /\ pc' = "returned"
    /\ IF arcStrong # 1
       THEN /\ outcome' = "Err"
            /\ errMsg' = "Arc unwrap error"
            /\ UNCHANGED << retVal, arcStrong >>
       ELSE IF poisoned
       THEN /\ outcome' = "Err"
            /\ errMsg' = "Mutex into_inner error"
            /\ arcStrong' = 0
            /\ retVal' = retVal
       ELSE /\ outcome' = "Ok"
            /\ retVal' = sort_by_key(buffer)
            /\ arcStrong' = 0
            /\ errMsg' = errMsg
    /\ failures' = IF arcStrong # 1 \/ poisoned THEN failures \cup {"unwrap"} ELSE failures
    /\ UNCHANGED << envVars, faultsLeft, seqVars, wpc, tensor, buffer, holder,
                    poisoned, acquired, opsUnderLock, trace, stdout, stderr,
                    exitStatus >>

----------------------------------------------------------------------------
(* main.rs: the match on the generator's Result, and the end of the process *)

\* Ok(_) => println!(...),  Err(e) => eprintln!(..., e); then main returns ()
main_report ==
    /\ pc = "returned"
    /\ IF outcome = "Ok"
       THEN /\ stdout' = Append(stdout, CompletedMsg(command))
            /\ stderr' = stderr
       ELSE /\ stderr' = Append(stderr, << ErrorPrefix(command), errMsg >>)
            /\ stdout' = stdout
    /\ exitStatus' = StatusOfMain(outcome)
    /\ pc' = "exited"
    /\ UNCHANGED << envVars, faultsLeft, failures, seqVars, parVars, trace, outcome,
                    retVal, errMsg >>

\* A panic unwinds through the generator and main: nothing of main's match
\* runs, the runtime prints the panic and the process ends with a failure
\* status.
panic_exit ==
    /\ pc = "panicked"
    /\ stderr' = Append(stderr, << "thread panicked: ", "library error" >>)
    /\ exitStatus' = "panic"
    /\ pc' = "exited"
    /\ UNCHANGED << envVars, faultsLeft, failures, seqVars, parVars, trace, stdout,
                    outcome, retVal, errMsg >>

----------------------------------------------------------------------------
Next ==
    \/ main_dispatch
    \/ seq_construct
    \/ seq_print
    \/ seq_push
    \/ seq_return
    \/ \E w \in DOMAIN wpc : worker_from_slice(w)
    \/ \E w \in DOMAIN wpc : worker_to_device(w)
    \/ \E w \in DOMAIN wpc : worker_print(w)
    \/ \E w \in DOMAIN wpc : worker_lock(w)
    \/ \E w \in DOMAIN wpc : worker_size(w)
    \/ \E w \in DOMAIN wpc : worker_push(w)
    \/ \E w \in DOMAIN wpc : worker_return(w)
    \/ \E w \in DOMAIN wpc : worker_skip(w)
    \/ try_for_each_join
    \/ reclaim
    \/ main_report
    \/ panic_exit

Spec == Init /\ [][Next]_vars

\* The operating system schedules the main thread and rayon's pool runs
\* every task it has started.
FairSpec ==
    /\ Init /\ [][Next]_vars
    /\ WF_vars(Next)

----------------------------------------------------------------------------
(* The sequential generator as a function of its arguments: the loop of    *)
(* cpu_load_test / gpu_load_test run to its end with no library error.     *)

RECURSIVE load_loop(_, _, _, _)
load_loop(k, n, dev, acc) ==
    IF k \notin Indices(n) THEN acc
    ELSE load_loop(k + 1, n, dev,
                   Append(acc, << k, size(to_device(from_slice(ZeroVec(n)), dev)) >>))

load_test(n, dev) == load_loop(1, n, dev, << >>)

----------------------------------------------------------------------------
(* Vocabulary of the properties *)

Tasks == DOMAIN wpc
Appended == {w \in Tasks : wpc[w] \in {"pushed", "done"}}
BufferIndices == {buffer[k][1] : k \in 1..Len(buffer)}

----------------------------------------------------------------------------
\* C1: for every N >= 2 a sequential generator that returns returns Ok with
\* exactly N-1 samples, result[k] = (k, [N]) for every position k; and it
\* does return Ok whenever no library call of the run failed.
C1_SequentialResult ==
    (command \in Sequential /\ len >= 2 /\ pc \in {"returned", "exited"}) =>
        /\ failures = {} => outcome = "Ok"
        /\ outcome # "Panic" =>
             /\ outcome = "Ok"
             /\ Len(retVal) = len - 1
             /\ \A k \in 1..Len(retVal) : retVal[k] = << k, << len >> >>
             /\ retVal = load_test(len, DeviceOf(command))

C1_Witness ==
    /\ command = "Gpu" /\ len >= 3 /\ pc = "returned" /\ outcome = "Ok"
    /\ Len(retVal) = len - 1
    /\ Len(trace) = len - 1

\* C2: for every N >= 2 and every interleaving of the tasks, a parallel
\* generator that returns Ok returns exactly what the sequential generator
\* returns for the same N and device, whatever the arrival order in the
\* shared buffer was; and it returns Ok whenever no library call failed.
C2_ParallelEqualsSequential ==
    (command \in Parallel /\ len >= 2 /\ pc \in {"returned", "exited"}) =>
        /\ failures = {} => outcome = "Ok"
        /\ outcome = "Ok" => retVal = load_test(len, DeviceOf(command))

C2_Witness ==
    /\ command \in Parallel /\ len >= 3 /\ pc = "returned" /\ outcome = "Ok"
    /\ Len(buffer) = len - 1
    /\ buffer # retVal
    /\ buffer[1][1] > buffer[2][1]

\* C3: for N = 0 and N = 1 every generator returns Ok with an empty result:
\* no task is started, no sample is produced, no diagnostic line is printed
\* and nothing fails, whatever the environment.
C3_EmptyForShortLengths ==
    (command # "None" /\ len <= 1) =>
        /\ Tasks = {}
        /\ results = << >> /\ buffer = << >> /\ trace = << >>
        /\ failures = {} /\ stderr = << >>
        /\ outcome \in {"none", "Ok"}
        /\ pc \notin {"seq_print", "seq_push", "panicked"}
        /\ pc \in {"returned", "exited"} => outcome = "Ok" /\ retVal = << >>

C3_Witness ==
    /\ command = "Tgpu" /\ len = 1 /\ ~cudaAvailable /\ faultsLeft > 0
    /\ pc = "exited" /\ outcome = "Ok" /\ retVal = << >>

\* C4 (as claimed): every failure of a run - the device missing at
\* placement, a failed lock(), a failed try_unwrap/into_inner - ends as an
\* Err of the generator that main prints on the error stream before it ends
\* normally.
C4_FailuresReturnedAsErr ==
    (pc = "exited" /\ failures \cap {"device", "lock", "unwrap"} # {}) =>
        /\ outcome = "Err"
        /\ stderr = << << ErrorPrefix(command), errMsg >> >>
        /\ exitStatus = "success"

\* C5 (as claimed): a generator's return value is Ok with all N-1 samples or
\* Err with none, and a run in which a task failed to take the lock
\* returns Err.
C5_NoPartialResult ==
    /\ outcome = "Ok" => Len(retVal) = Cardinality(Indices(len))
    /\ outcome = "Err" => retVal = << >>
    /\ (pc = "exited" /\ "lock" \in failures) => outcome = "Err"

C7_BufferOnlyUnderLock ==
    /\ Cardinality({w \in Tasks : wpc[w] \in InCritical}) <= 1
    /\ \A w \in Tasks : wpc[w] \in InCritical => holder = w
    /\ holder # 0 => holder \in Tasks /\ wpc[holder] \in InCritical
    /\ \A w \in Tasks :
         /\ acquired[w] <= 1
         /\ wpc[w] \in InCritical \cup {"done"} => acquired[w] = 1
         /\ wpc[w] \in {"start", "sliced", "placed", "printed", "skipped", "err"}
              => acquired[w] = 0
    /\ Len(buffer) = Cardinality(Appended)
    /\ BufferIndices = Appended
    /\ \A a, b \in 1..Len(buffer) : a # b => buffer[a][1] # buffer[b][1]
    /\ \A k \in 1..Len(buffer) : buffer[k] = << buffer[k][1], << len >> >>

C7_Witness ==
    /\ pc = "fanout"
    /\ Len(buffer) = 2 /\ buffer[1][1] = 3 /\ buffer[2][1] = 1
    /\ holder = 2 /\ wpc[2] = "sized"

NoHoldAndWait == \A w \in Tasks : holder = w => wpc[w] \in InCritical

AllJoined == holder = 0 /\ \A w \in Tasks : wpc[w] \in Ended

\* The generator has ended: with Ok and the complete result, or with a
\* failure (an Err return or a task's panic resumed in the caller).
GeneratorFinished ==
    \/ outcome = "Ok" /\ Len(retVal) = Cardinality(Indices(len))
    \/ outcome \in {"Err", "Panic"}

\* C9: a parallel run cannot deadlock and always finishes: no task holds
\* the lock while waiting for a lock, and under fair scheduling every task
\* ends with the lock released, the fan-out joins, and the generator ends
\* with the complete result or with a failure; when no library call fails
\* every task has taken and released the lock and the result is Ok.
C9_NoDeadlockAlwaysFinishes ==
    /\ []NoHoldAndWait
    /\ [](pc \in {"reclaim", "returned", "panicked", "exited"} => AllJoined)
    /\ (pc = "fanout") ~> (pc = "exited" /\ GeneratorFinished)
    /\ []((pc = "exited" /\ command \in Parallel /\ failures = {}) =>
            /\ outcome = "Ok"
            /\ \A w \in Tasks : wpc[w] = "done" /\ acquired[w] = 1)

\* One task waits in lock() while another holds the lock.
C9_Witness ==
    \E a, b \in Tasks :
        /\ a # b
        /\ holder = a /\ wpc[a] = "pushed"
        /\ wpc[b] = "printed"

\* C10: reclaiming the buffer never fails: when try_for_each has returned
\* Ok every task has returned Ok, the generator is the Arc's sole owner and
\* the lock is free and not poisoned, so neither "Arc unwrap error" nor
\* "Mutex into_inner error" is ever returned.
C10_ReclaimNeverFails ==
    /\ pc = "reclaim" =>
         /\ \A w \in Tasks : wpc[w] = "done"
         /\ arcStrong = 1
         /\ holder = 0
         /\ ~poisoned
         /\ failures = {}
    /\ errMsg \notin {"Arc unwrap error", "Mutex into_inner error"}
    /\ "unwrap" \notin failures

C10_Witness ==
    /\ command = "Tgpu" /\ len >= 3
    /\ pc = "returned" /\ outcome = "Ok"
    /\ arcStrong = 0 /\ ~poisoned
    /\ Len(retVal) = Len(buffer)

====
